---- MODULE Spec2Model ----
(***************************************************************************)
(* AutoGrain (src/AutoGrain.py): the GrainAnalyzerApp object, its event    *)
(* handlers (load_image, activate_scale_tool, on_canvas_click with         *)
(* _finalize_scale_measurement, analyze_grains) and the arithmetic they    *)
(* perform.                                                                *)
(*                                                                         *)
(* Numbers.  Python floats are modelled as exact rationals <<num, den>>    *)
(* (den > 0, lowest terms).  Lengths that carry a factor pi (the sampled   *)
(* circumference and everything divided out of it) are kept as the         *)
(* rational coefficient of pi.  Values of log10 and of x ** -0.5 are kept  *)
(* as terms over their rational argument.                                  *)
(*                                                                         *)
(* Handlers.  Tk runs one handler at a time.  display_image calls          *)
(* root.update() (line 206), which dispatches the events that are pending  *)
(* at that moment to their handlers before display_image goes on: the      *)
(* calling handler is suspended on `stack' and resumed by update_return.   *)
(* Modal dialogs (askfloat, messagebox, askopenfilename) hold a grab, so   *)
(* they are answered inside the action that opens them.                    *)
(***************************************************************************)
EXTENDS Integers, Sequences, FiniteSets, TLC

\* ------------------------------------------------------------------ bounds
MaxDim == 3          \* image sides 1..MaxDim in Spec
MaxSampDim == 12     \* image sides 1..MaxSampDim in SpecSampler
MaxCount == 1        \* connected components found on one non-degenerate ring
MaxDepth == 1        \* handlers suspended in root.update() at one time
MaxPoints == 3       \* clicks kept in scale_points

\* ------------------------------------------------- constants of the program
num_circles == 5             \* line 326
RadiusPercent == 35          \* 0.35, line 328
JitterPercent == 10          \* 0.1, lines 334-335
AskMinHundredths == 10       \* minvalue=0.1, line 282
AskMaxHundredths == 1000000  \* maxvalue=10000, line 282
DefaultCanvasWidth == 800    \* line 211
DefaultCanvasHeight == 600   \* line 212
MinCanvas == 10              \* lines 211-212
ScaleDigits == 10000         \* round(px_per_micron, 4), line 286
MicronsPerMM == 1000         \* line 370 and line 412

\* --------------------------------------------------------------- rationals
RECURSIVE GCD(_, _)
GCD(a, b) == IF b = 0 THEN a ELSE GCD(b, a % b)

Abs(n) == IF n < 0 THEN -n ELSE n

\* lowest terms, positive denominator
Reduce(q) ==
    LET g == GCD(Abs(q[1]), Abs(q[2]))
        s == IF q[2] < 0 THEN -1 ELSE 1
    IN  IF g = 0 THEN q ELSE <<s * (q[1] \div g), s * (q[2] \div g)>>

RLess(a, b) == a[1] * b[2] < b[1] * a[2]
RLeq(a, b) == a[1] * b[2] <= b[1] * a[2]
RDiv(a, b) == Reduce(<<a[1] * b[2], a[2] * b[1]>>)
RInt(n) == <<n, 1>>

\* round(x * 10^4) for rational x = n/d, ties to even (Python's round)
RoundHalfEven(n, d) ==
    LET q == n \div d
        r == n % d
    IN  IF 2 * r < d THEN q
        ELSE IF 2 * r > d THEN q + 1
        ELSE IF q % 2 = 0 THEN q ELSE q + 1

\* round(x, 4)
Round4(x) == Reduce(<<RoundHalfEven(x[1] * ScaleDigits, x[2]), ScaleDigits>>)

\* ------------------------------------------------------ input domains
Points == {<<0, 0>>, <<60, 0>>, <<0, 80>>}       \* canvas clicks (event.x, event.y)
CanvasSizes == {<<800, 600>>, <<1, 1>>}   \* winfo_width/height
CalImages == {<<1600, 1200>>, <<800, 600>>, <<400, 300>>}   \* <<w, h>>
SmallImages == (1..MaxDim) \X (1..MaxDim)
SamplerImages == (1..MaxSampDim) \X (1..MaxSampDim)
\* what the user leaves in the askfloat dialog, in hundredths of a micron
TypedLengths == {-100, 0, 5, 10, 300, 1000}
ScaleEntries == {<<0, 1>>, <<1, 2>>}   \* typed into scale_entry
MaterialChoices == {"Steel (Low Carbon)", "Unobtainium"}

NoImage == <<0, 0>>      \* original_image is None
NoRatio == <<0, 0>>      \* current_scale_ratio not yet assigned
NoEntry == <<"cancel", 0>>

\* ---------------------------------------------------------- materials_db
\* s0 and k in tenths of their unit (lines 44-50)
materials_db ==
    [m \in {"Steel (Low Carbon)", "Aluminum (1100-O Pure)", "Titanium (CP Grade 2)",
            "Inconel 718 (Sol. Ann.)", "Brass (70/30 Cartridge)"} |->
        CASE m = "Steel (Low Carbon)" -> [s0 |-> 700, k |-> 230]
          [] m = "Aluminum (1100-O Pure)" -> [s0 |-> 150, k |-> 22]
          [] m = "Titanium (CP Grade 2)" -> [s0 |-> 1700, k |-> 120]
          [] m = "Inconel 718 (Sol. Ann.)" -> [s0 |-> 3500, k |-> 240]
          [] OTHER -> [s0 |-> 700, k |-> 120]]

\* ------------------------------------------------------------- terms
\* a float the report prints: a plain number, or a term over a rational
Term(kind, s0, k, arg) == [kind |-> kind, s0 |-> s0, k |-> k, arg |-> arg]
Number(q) == Term("number", 0, 0, q)
Raised(exc) == Term(exc, 0, 0, <<0, 1>>)

NoReport ==
    [material |-> "", intercepts |-> 0, mli |-> <<0, 1>>, astm |-> Number(<<0, 1>>),
     d_mm |-> <<0, 1>>, s0 |-> 0, k |-> 0, yield |-> Number(<<0, 1>>)]

Text(kind) == [kind |-> kind, px |-> <<0, 1>>, report |-> NoReport]

\* ------------------------------------------------------ display_image
\* self.current_scale_ratio = min(canvas_width/w, canvas_height/h), lines 207-216
display_ratio(cv_image, canvas) ==
    LET canvas_width == IF canvas[1] < MinCanvas THEN DefaultCanvasWidth ELSE canvas[1]
        canvas_height == IF canvas[2] < MinCanvas THEN DefaultCanvasHeight ELSE canvas[2]
        rw == Reduce(<<canvas_width, cv_image[1]>>)
        rh == Reduce(<<canvas_height, cv_image[2]>>)
    IN  IF RLeq(rw, rh) THEN rw ELSE rh

\* ------------------------------------------- _finalize_scale_measurement
\* math.sqrt of the squared canvas distance, line 269.  Points are chosen so
\* that the distance is a whole number of pixels and the root is exact.
dist_canvas_px(p1, p2) ==
    LET d2 == (p2[1] - p1[1]) * (p2[1] - p1[1]) + (p2[2] - p1[2]) * (p2[2] - p1[2])
    IN  CHOOSE r \in 0..200 : r * r = d2

\* the ratio multiplied in instead of divided out
dist_original_px_times(dist, ratio) ==
    Reduce(<<dist * ratio[1], ratio[2]>>)

\* lines 273-276: dist_canvas_px / current_scale_ratio, or the canvas
\* distance itself on ZeroDivisionError
dist_original_px(dist, ratio) ==
    IF ratio[1] = 0 THEN RInt(dist) ELSE RDiv(RInt(dist), ratio)

\* askfloat without minvalue and maxvalue
askfloat_unchecked(entry) ==
    IF entry[1] = "cancel" THEN <<"None", 0>> ELSE <<"float", entry[2]>>

\* simpledialog.askfloat(minvalue=0.1, maxvalue=10000), lines 279-282: a
\* value outside the range is refused and the dialog stays open, so the
\* call returns a value in range, or None once the user cancels.
askfloat(entry) ==
    IF entry[1] = "cancel" \/ entry[2] < AskMinHundredths \/ entry[2] > AskMaxHundredths
    THEN <<"None", 0>>
    ELSE <<"float", entry[2]>>

\* `if length_microns:` line 284
Truthy(x) == x[1] = "float" /\ x[2] # 0

\* line 285: dist_original_px / length_microns (length in hundredths)
px_per_micron(dist_original, length) ==
    RDiv(dist_original, <<length[2], 100>>)

\* ------------------------------------------------------------ state
VARIABLES
    original_image,       \* NoImage or <<w, h>> of the loaded micrograph
    current_scale_ratio,  \* NoRatio or the display-to-source ratio
    pixel_scale_var,      \* the scale entry, pixels per micron
    material_var,         \* the selected material name
    results_text,         \* what the results label shows
    setting_scale,        \* measure mode
    scale_points,         \* recorded clicks
    btn_measure,          \* "normal" or "disabled"
    asked_length,         \* what was last left in the askfloat dialog
    outcome,              \* message box or uncaught exception of the last handler
    pc,                   \* "idle", or "sampling" inside analyze_grains' loop
    run,                  \* the locals of analyze_grains
    stack                 \* handlers suspended in display_image's root.update()

vars == <<original_image, current_scale_ratio, pixel_scale_var, material_var,
          results_text, setting_scale, scale_points, btn_measure, asked_length,
          outcome, pc, run, stack>>

NoRun ==
    [w |-> 0, h |-> 0, radius |-> 0, i |-> 0, center_x |-> 0, center_y |-> 0,
     recentered |-> FALSE, n_intercepts |-> 0, total_intercepts |-> 0,
     total_circumference_px |-> 0, scale_factor |-> <<0, 1>>]

Frame(handler, cv_image) == [handler |-> handler, cv_image |-> cv_image]

\* __init__, lines 30-40
Init ==
    /\ original_image = NoImage
    /\ current_scale_ratio = NoRatio
    /\ pixel_scale_var = <<1, 1>>
    /\ material_var = "Steel (Low Carbon)"
    /\ results_text = Text("begin")
    /\ setting_scale = FALSE
    /\ scale_points = <<>>
    /\ btn_measure = "normal"
    /\ asked_length = NoEntry
    /\ outcome = "none"
    /\ pc = "idle"
    /\ run = NoRun
    /\ stack = <<>>

ScaleTool == <<setting_scale, scale_points, btn_measure, asked_length>>
Analysis == <<pc, run>>

\* a handler that reaches display_image is suspended in root.update()
CanSuspend == Len(stack) < MaxDepth

\* ------------------------------------------------------------ load_image
\* lines 182-199: a readable file was chosen
load_image(Images) ==
    /\ pc = "idle" /\ CanSuspend
    /\ \E img \in Images :
        /\ original_image' = img
        /\ stack' = Append(stack, Frame("load", img))
    /\ outcome' = "none"
    /\ UNCHANGED <<current_scale_ratio, pixel_scale_var, material_var, results_text,
                   ScaleTool, Analysis>>

\* lines 190-193: cv2.imread returned None
load_image_unreadable ==
    /\ pc = "idle"
    /\ outcome' = "showerror: could not read image"
    /\ UNCHANGED <<original_image, current_scale_ratio, pixel_scale_var, material_var,
                   results_text, ScaleTool, Analysis, stack>>

\* display_image after root.update() returns (lines 207-233), then the rest
\* of the handler that called it
update_return ==
    /\ pc = "idle" /\ stack # <<>>
    /\ LET f == stack[Len(stack)] IN
        /\ \E canvas \in CanvasSizes :
            current_scale_ratio' = display_ratio(f.cv_image, canvas)
        /\ results_text' = IF f.handler = "load" THEN Text("loaded") ELSE results_text
        /\ setting_scale' = IF f.handler = "finalize" THEN FALSE ELSE setting_scale
        /\ btn_measure' = IF f.handler = "finalize" THEN "normal" ELSE btn_measure
    /\ stack' = SubSeq(stack, 1, Len(stack) - 1)
    /\ UNCHANGED <<original_image, pixel_scale_var, material_var, scale_points,
                   asked_length, outcome, Analysis>>

\* ------------------------------------------------- activate_scale_tool
\* lines 236-244; the button only fires while it is enabled
activate_scale_tool ==
    /\ pc = "idle" /\ btn_measure = "normal"
    /\ IF original_image = NoImage
       THEN /\ outcome' = "showwarning: load an image first"
            /\ UNCHANGED <<setting_scale, scale_points, results_text, btn_measure>>
       ELSE /\ setting_scale' = TRUE
            /\ scale_points' = <<>>
            /\ results_text' = Text("measure_mode")
            /\ btn_measure' = "disabled"
            /\ outcome' = "none"
    /\ UNCHANGED <<original_image, current_scale_ratio, pixel_scale_var, material_var,
                   asked_length, Analysis, stack>>

\* ----------------------------------------------------- on_canvas_click
\* lines 247-248
on_canvas_click_ignored ==
    /\ pc = "idle" /\ ~setting_scale
    /\ outcome' = "none"
    /\ UNCHANGED <<original_image, current_scale_ratio, pixel_scale_var, material_var,
                   results_text, ScaleTool, Analysis, stack>>

\* lines 251-258, the click is not the second point
on_canvas_click_record ==
    /\ pc = "idle" /\ setting_scale
    /\ \E p \in Points :
        /\ Len(Append(scale_points, p)) # 2
        /\ Len(scale_points) < MaxPoints
        /\ scale_points' = Append(scale_points, p)
    /\ outcome' = "none"
    /\ UNCHANGED <<original_image, current_scale_ratio, pixel_scale_var, material_var,
                   results_text, setting_scale, btn_measure, asked_length, Analysis,
                   stack>>

\* lines 258-259 and 261-295: the second point, and the dialog's answer
on_canvas_click_finalize ==
    /\ pc = "idle" /\ setting_scale /\ Len(scale_points) = 1
    /\ \E p \in Points, entry \in {NoEntry} \cup {<<"typed", t>> : t \in TypedLengths} :
        LET points == Append(scale_points, p)
            dist == dist_canvas_px(points[1], points[2])
            original == dist_original_px(dist, current_scale_ratio)
            length_microns == askfloat(entry)
        IN  /\ scale_points' = points
            /\ IF current_scale_ratio = NoRatio
               THEN \* line 274: no attribute current_scale_ratio yet
                    /\ outcome' = "AttributeError"
                    /\ UNCHANGED <<pixel_scale_var, results_text, setting_scale,
                                   btn_measure, asked_length, stack>>
               ELSE /\ asked_length' = entry
                    /\ outcome' = "none"
                    /\ IF Truthy(length_microns)
                       THEN /\ pixel_scale_var' =
                                   Round4(px_per_micron(original, length_microns))
                            /\ results_text' =
                                   [Text("scale_set") EXCEPT
                                      !.px = px_per_micron(original, length_microns)]
                            /\ setting_scale' = FALSE
                            /\ btn_measure' = "normal"
                            /\ UNCHANGED stack
                       ELSE /\ CanSuspend
                            /\ results_text' = Text("cancelled")
                            /\ stack' = Append(stack, Frame("finalize", original_image))
                            /\ UNCHANGED <<pixel_scale_var, setting_scale, btn_measure>>
    /\ UNCHANGED <<original_image, current_scale_ratio, material_var, Analysis>>

\* ------------------------------------------------------- the scale tool
NextCal ==
    \/ load_image(CalImages)
    \/ load_image_unreadable
    \/ update_return
    \/ activate_scale_tool
    \/ on_canvas_click_ignored
    \/ on_canvas_click_record
    \/ on_canvas_click_finalize

SpecCal == Init /\ [][NextCal]_vars

\* ------------------------------------------------------- the two entries
\* scale_entry is bound to pixel_scale_var (line 123)
edit_pixel_scale ==
    /\ pc = "idle"
    /\ \E s \in ScaleEntries : pixel_scale_var' = s
    /\ UNCHANGED <<original_image, current_scale_ratio, material_var, results_text,
                   ScaleTool, outcome, Analysis, stack>>

\* material_var.set(name) (the dropdown of line 134 offers the table's keys)
select_material ==
    /\ pc = "idle"
    /\ \E m \in MaterialChoices : material_var' = m
    /\ UNCHANGED <<original_image, current_scale_ratio, pixel_scale_var, results_text,
                   ScaleTool, outcome, Analysis, stack>>

\* -------------------------------------------------------- analyze_grains
\* a radius fraction of 0.65
sampling_radius_wide(min_dim) == (min_dim * 65) \div 100

\* int(min_dim * 0.35), line 328 (the float product floors like the exact
\* one for every min_dim below 180)
sampling_radius(min_dim) == (min_dim * RadiusPercent) \div 100

\* offsets within 30% of the side
jitter_range_wide(n) == (n * 30) \div 100

\* int(w*0.1), lines 334-335
jitter_range(n) == (n * JitterPercent) \div 100

\* the test of line 337
out_of_bounds(center_x, center_y, radius, w, h) ==
    \/ center_x - radius < 0
    \/ center_x + radius > w
    \/ center_y - radius < 0
    \/ center_y + radius > h

\* math.pi * radius
ring_circumference_half(radius) == radius

\* 2 * math.pi * radius, line 348, as the coefficient of pi
ring_circumference(radius) == 2 * radius

\* len(contours), line 346: a ring of radius 0 is one pixel
max_components(radius) == IF radius = 0 THEN 1 ELSE MaxCount

\* the zero test missing
no_boundaries_never(total_intercepts) == total_intercepts < 0

\* line 356
no_boundaries(total_intercepts) == total_intercepts = 0

\* line 362
avg_intercept_px(total_circumference_px, total_intercepts) ==
    Reduce(<<total_circumference_px, total_intercepts>>)

\* the scale multiplied in instead of divided out
avg_grain_intercept_um_times(avg_px, scale_factor) ==
    Reduce(<<avg_px[1] * scale_factor[1], avg_px[2] * scale_factor[2]>>)

\* line 366
avg_grain_intercept_um(avg_px, scale_factor) == RDiv(avg_px, scale_factor)

\* line 370
grain_diameter_mm(um) == Reduce(<<um[1], um[2] * MicronsPerMM>>)

\* d_mm ** -0.5 inside line 382: 0.0 to a negative power raises
hall_petch(s0, k, d_mm) ==
    IF d_mm[1] = 0 THEN Raised("ZeroDivisionError")
    ELSE Term("hall_petch", s0, k, d_mm)

\* line 382 without the try
yield_strength_uncaught(s0, k, d_mm) == hall_petch(s0, k, d_mm)

\* lines 381-384
yield_strength(s0, k, d_mm) ==
    IF hall_petch(s0, k, d_mm).kind = "ZeroDivisionError"
    THEN Number(<<0, 1>>)
    ELSE hall_petch(s0, k, d_mm)

\* lines 405-413
calculate_astm(mean_intercept_um) ==
    IF RLeq(mean_intercept_um, <<0, 1>>) THEN Number(<<0, 1>>)
    ELSE Term("astm", 0, 0, grain_diameter_mm(mean_intercept_um))

\* materials_db.get(name, <the first entry>)
lookup_material_default(name) ==
    IF name \in DOMAIN materials_db
    THEN [found |-> TRUE, s0 |-> materials_db[name].s0, k |-> materials_db[name].k]
    ELSE [found |-> TRUE, s0 |-> 700, k |-> 230]

\* self.materials_db[name], line 377
lookup_material(name) ==
    IF name \in DOMAIN materials_db
    THEN [found |-> TRUE, s0 |-> materials_db[name].s0, k |-> materials_db[name].k]
    ELSE [found |-> FALSE, s0 |-> 0, k |-> 0]

\* lines 387-400
report(material, total_intercepts, um, s0, k) ==
    [material |-> material, intercepts |-> total_intercepts, mli |-> um,
     astm |-> calculate_astm(um), d_mm |-> grain_diameter_mm(um), s0 |-> s0, k |-> k,
     yield |-> yield_strength(s0, k, grain_diameter_mm(um))]

\* lines 299-301
analyze_grains_no_image ==
    /\ pc = "idle" /\ original_image = NoImage
    /\ outcome' = "showwarning: load an image first"
    /\ UNCHANGED <<original_image, current_scale_ratio, pixel_scale_var, material_var,
                   results_text, ScaleTool, Analysis, stack>>

\* lines 303-308
analyze_grains_bad_scale ==
    /\ pc = "idle" /\ original_image # NoImage
    /\ RLeq(pixel_scale_var, <<0, 1>>)
    /\ outcome' = "showerror: invalid pixel scale"
    /\ UNCHANGED <<original_image, current_scale_ratio, pixel_scale_var, material_var,
                   results_text, ScaleTool, Analysis, stack>>

\* lines 304-331: the scale is read, the mask computed, the loop set up
analyze_grains_begin ==
    /\ pc = "idle" /\ original_image # NoImage /\ CanSuspend
    /\ ~RLeq(pixel_scale_var, <<0, 1>>)
    /\ pc' = "sampling"
    /\ run' = [NoRun EXCEPT
                 !.w = original_image[1],
                 !.h = original_image[2],
                 !.radius = sampling_radius(IF original_image[2] < original_image[1]
                                            THEN original_image[2]
                                            ELSE original_image[1]),
                 !.scale_factor = pixel_scale_var]
    /\ outcome' = "none"
    /\ UNCHANGED <<original_image, current_scale_ratio, pixel_scale_var, material_var,
                   results_text, ScaleTool, stack>>

\* one pass of the loop, lines 333-353
sample_circle ==
    /\ pc = "sampling" /\ run.i < num_circles
    /\ \E dx \in (-jitter_range(run.w))..jitter_range(run.w),
          dy \in (-jitter_range(run.h))..jitter_range(run.h),
          n \in 0..max_components(run.radius) :
        LET jx == run.w \div 2 + dx
            jy == run.h \div 2 + dy
            out == out_of_bounds(jx, jy, run.radius, run.w, run.h)
        IN  run' = [run EXCEPT
                      !.i = @ + 1,
                      !.center_x = IF out THEN run.w \div 2 ELSE jx,
                      !.center_y = IF out THEN run.h \div 2 ELSE jy,
                      !.recentered = out,
                      !.n_intercepts = n,
                      !.total_intercepts = @ + n,
                      !.total_circumference_px = @ + ring_circumference(run.radius)]
    /\ UNCHANGED <<original_image, current_scale_ratio, pixel_scale_var, material_var,
                   results_text, ScaleTool, outcome, pc, stack>>

\* lines 356-359
analyze_grains_failed ==
    /\ pc = "sampling" /\ run.i = num_circles
    /\ no_boundaries(run.total_intercepts)
    /\ results_text' = Text("failed")
    /\ stack' = Append(stack, Frame("analyze", <<run.w, run.h>>))
    /\ pc' = "idle"
    /\ run' = NoRun
    /\ UNCHANGED <<original_image, current_scale_ratio, pixel_scale_var, material_var,
                   ScaleTool, outcome>>

\* lines 361-403
analyze_grains_report ==
    /\ pc = "sampling" /\ run.i = num_circles
    /\ ~no_boundaries(run.total_intercepts)
    /\ LET mat_data == lookup_material(material_var) IN
        IF run.total_intercepts = 0
        THEN \* line 362 divides by zero
             /\ outcome' = "ZeroDivisionError"
             /\ UNCHANGED <<results_text, stack>>
        ELSE IF ~mat_data.found
        THEN \* line 377
             /\ outcome' = "KeyError"
             /\ UNCHANGED <<results_text, stack>>
        ELSE /\ results_text' =
                  [Text("report") EXCEPT
                     !.report =
                        report(material_var, run.total_intercepts,
                               avg_grain_intercept_um(
                                   avg_intercept_px(run.total_circumference_px,
                                                    run.total_intercepts),
                                   run.scale_factor),
                               mat_data.s0, mat_data.k)]
             /\ stack' = Append(stack, Frame("analyze", <<run.w, run.h>>))
             /\ outcome' = "none"
    /\ pc' = "idle"
    /\ run' = NoRun
    /\ UNCHANGED <<original_image, current_scale_ratio, pixel_scale_var, material_var,
                   ScaleTool>>

\* ------------------------------------------------------------ the engine
Next ==
    \/ load_image(SmallImages)
    \/ load_image_unreadable
    \/ update_return
    \/ edit_pixel_scale
    \/ select_material
    \/ analyze_grains_no_image
    \/ analyze_grains_bad_scale
    \/ analyze_grains_begin
    \/ sample_circle
    \/ analyze_grains_failed
    \/ analyze_grains_report

Spec == Init /\ [][Next]_vars

\* ----------------------------------------------------------- the sampler
\* a micrograph of any size has been loaded and displayed
InitSampler ==
    /\ original_image \in SamplerImages
    /\ current_scale_ratio = display_ratio(original_image, <<800, 600>>)
    /\ pixel_scale_var = <<1, 1>>
    /\ material_var = "Steel (Low Carbon)"
    /\ results_text = Text("loaded")
    /\ setting_scale = FALSE
    /\ scale_points = <<>>
    /\ btn_measure = "normal"
    /\ asked_length = NoEntry
    /\ outcome = "none"
    /\ pc = "idle"
    /\ run = NoRun
    /\ stack = <<>>

NextSampler ==
    \/ update_return
    \/ analyze_grains_begin
    \/ sample_circle
    \/ analyze_grains_failed
    \/ analyze_grains_report

SpecSampler == InitSampler /\ [][NextSampler]_vars

\* =================================================================== claims

\* the handler is about to leave the sampling loop
LoopEnded == pc = "sampling" /\ run.i = num_circles

\* on_canvas_click takes the second point and the askfloat dialog is shown
DialogShown ==
    /\ setting_scale
    /\ Len(scale_points) = 1
    /\ Len(scale_points') = 2
    /\ current_scale_ratio # NoRatio

\* C1: every sampling circle used in a run lies inside the image:
\* center_x - radius >= 0, center_x + radius <= w, center_y - radius >= 0 and
\* center_y + radius <= h, for every image size and every jitter drawn.
C1_CirclesWithinImage ==
    (pc = "sampling" /\ run.i > 0) =>
        /\ run.center_x - run.radius >= 0
        /\ run.center_x + run.radius <= run.w
        /\ run.center_y - run.radius >= 0
        /\ run.center_y + run.radius <= run.h

C1_Witness ==
    /\ LoopEnded
    /\ run.radius >= 3
    /\ run.w # run.h
    /\ run.center_x # run.w \div 2
    /\ run.center_y # run.h \div 2

\* C10: with radius floor(0.35 * min(w, h)) and offsets within floor(0.1 * w)
\* and floor(0.1 * h), the jittered circle is always inside the image, so no
\* circle is ever moved back to the exact image center.
C10_NeverRecentered ==
    (pc = "sampling" /\ run.i > 0) => ~run.recentered

C10_Witness ==
    /\ LoopEnded
    /\ jitter_range(run.w) = 1
    /\ jitter_range(run.h) = 1
    /\ run.w < run.h
    /\ run.center_x = run.w \div 2 - 1
    /\ run.center_y = run.h \div 2 + 1
    /\ ~run.recentered

\* C2: a run whose five circles counted no intercept ends in the failure
\* state: the results show the failure and no metric, and the handler returns
\* without sampling again.
C2_NoBoundariesDetected ==
    [][(LoopEnded /\ run.total_intercepts = 0) =>
          /\ results_text'.kind = "failed"
          /\ results_text'.report = NoReport
          /\ pc' = "idle"
          /\ run' = NoRun]_vars

C2_Witness ==
    /\ results_text.kind = "failed"
    /\ pc = "idle"
    /\ stack # <<>>
    /\ stack[Len(stack)].handler = "analyze"

C4_InvalidCalibrationInput ==
    [][(DialogShown /\ asked_length'[2] <= 0) =>
          /\ pixel_scale_var' = pixel_scale_var
          /\ results_text'.kind = "cancelled"]_vars

C4_Witness ==
    /\ asked_length = <<"typed", -100>>
    /\ results_text.kind = "cancelled"
    /\ pixel_scale_var # <<1, 1>>

\* (display distance / ratio) / known length, as a fraction in lowest terms
ClaimedScale(points, ratio, hundredths) ==
    Reduce(<<dist_canvas_px(points[1], points[2]) * ratio[2] * 100,
             ratio[1] * hundredths>>)

\* C5 as stated: for every known length > 0 returned by the dialog the stored
\* ratio is exactly (display distance / displayToSourceRatio) / knownLengthMicrons.
C5_AsStated ==
    [][(DialogShown /\ askfloat(asked_length')[2] > 0) =>
          pixel_scale_var' =
              ClaimedScale(scale_points', current_scale_ratio, asked_length'[2])]_vars

\* C5 amended: for every known length > 0 returned by the dialog the stored
\* ratio is that quotient rounded to four decimals (a multiple of 0.0001
\* within 0.00005 of it); distance 100, ratio 0.5 and length 10 store 20.
C5_StoredScale ==
    [][(DialogShown /\ askfloat(asked_length')[2] > 0) =>
          LET e == ClaimedScale(scale_points', current_scale_ratio, asked_length'[2])
              v == pixel_scale_var'
              diff == Abs(v[1] * e[2] - e[1] * v[2])
          IN  /\ ScaleDigits % v[2] = 0
              /\ diff <= (v[2] * e[2]) \div (2 * ScaleDigits)
              /\ (/\ dist_canvas_px(scale_points'[1], scale_points'[2]) = 100
                  /\ current_scale_ratio = <<1, 2>>
                  /\ asked_length'[2] = 1000) => v = <<20, 1>>]_vars

C5_Witness ==
    /\ scale_points = <<(<<60, 0>>), (<<0, 80>>)>>
    /\ current_scale_ratio = <<1, 2>>
    /\ asked_length = <<"typed", 1000>>
    /\ results_text.kind = "scale_set"
    /\ pixel_scale_var = <<20, 1>>

\* C6: a run for a material of the table that counted intercepts on rings of
\* radius 0 (grain diameter 0) does not raise: it reports yield strength 0 and
\* ASTM grain number 0.
C6_ZeroDiameter ==
    [][(/\ LoopEnded
        /\ run.total_intercepts > 0
        /\ run.total_circumference_px = 0
        /\ material_var \in DOMAIN materials_db) =>
          /\ outcome' = "none"
          /\ results_text'.kind = "report"
          /\ results_text'.report.d_mm = <<0, 1>>
          /\ results_text'.report.yield = Number(<<0, 1>>)
          /\ results_text'.report.astm = Number(<<0, 1>>)]_vars

C6_Witness ==
    /\ results_text.kind = "report"
    /\ results_text.report.intercepts > 0
    /\ results_text.report.d_mm = <<0, 1>>
    /\ results_text.report.yield = Number(<<0, 1>>)

\* the calibrations compared in C7
PositiveScales == {<<1, 2>>, <<1, 1>>, <<2, 1>>, <<5, 2>>}

\* mean lineal intercept of the finished loop under calibration p
MeanLinealIntercept(p) ==
    avg_grain_intercept_um(
        avg_intercept_px(run.total_circumference_px, run.total_intercepts), p)

\* C7 as stated: for the totals of any run with intercepts, a larger
\* pixels-per-micron ratio gives a smaller mean lineal intercept.
C7_AsStated ==
    (LoopEnded /\ run.total_intercepts > 0) =>
        \A p1, p2 \in PositiveScales :
            RLess(p1, p2) => RLess(MeanLinealIntercept(p2), MeanLinealIntercept(p1))

\* C7 amended: the mean lineal intercept is smaller under the larger ratio
\* when the sampled circumference is positive (radius >= 1); when the radius
\* is 0 it is 0 under every ratio.  (Quotients are exact here.)
C7_Monotonic ==
    (LoopEnded /\ run.total_intercepts > 0) =>
        \A p1, p2 \in PositiveScales :
            RLess(p1, p2) =>
                IF run.total_circumference_px > 0
                THEN /\ RLess(MeanLinealIntercept(p2), MeanLinealIntercept(p1))
                     /\ RLess(<<0, 1>>, MeanLinealIntercept(p2))
                ELSE /\ MeanLinealIntercept(p1) = <<0, 1>>
                     /\ MeanLinealIntercept(p2) = <<0, 1>>

C7_Witness ==
    /\ LoopEnded
    /\ run.total_intercepts = 2
    /\ run.total_circumference_px > 0
    /\ run.scale_factor = <<1, 2>>

MinSide == IF run.h < run.w THEN run.h ELSE run.w

\* C8 as stated: at the end of the loop five circles were sampled with
\* radius exactly 0.35 * min(w, h) and the circumference is 5 * 2 * pi * radius.
C8_AsStated ==
    LoopEnded =>
        /\ 100 * run.radius = RadiusPercent * MinSide
        /\ run.total_circumference_px = num_circles * 2 * run.radius

\* C8 amended: the radius is 0.35 * min(w, h) rounded down, the same for all
\* five circles; each pass adds its component count to the running count and
\* 2 * pi * radius to the running circumference, and the loop is left after
\* exactly five passes, with circumference 5 * 2 * pi * radius.
C8_FiveCircles ==
    [][/\ (pc = "sampling" /\ pc' = "sampling" /\ run' # run) =>
            /\ run'.i = run.i + 1
            /\ run'.i <= num_circles
            /\ run'.radius = run.radius
            /\ run'.radius = (RadiusPercent * MinSide) \div 100
            /\ run'.total_intercepts = run.total_intercepts + run'.n_intercepts
            /\ run'.total_circumference_px = run'.i * 2 * run.radius
       /\ (pc = "sampling" /\ pc' = "idle") =>
            /\ run.i = num_circles
            /\ run.total_circumference_px = num_circles * 2 * run.radius]_vars

C8_Witness ==
    /\ LoopEnded
    /\ run.radius = 1
    /\ run.total_intercepts = 3
    /\ run.total_circumference_px = 10
    /\ run.n_intercepts = 0

\* C9: a click is recorded only in measure mode, scale_points never holds
\* more than two points, activating the tool without an image changes nothing
\* and, once two points are recorded and no handler is running, measure mode
\* is over and the measure button is enabled again.
C9_ScaleTool ==
    [][/\ Len(scale_points') > Len(scale_points) => setting_scale
       /\ Len(scale_points') <= 2
       /\ (original_image' = NoImage) =>
              (~setting_scale' /\ scale_points' = <<>> /\ btn_measure' = "normal")
       /\ (Len(scale_points') = 2 /\ stack' = <<>> /\ pc' = "idle") =>
              (~setting_scale' /\ btn_measure' = "normal")]_vars

====
